---- MODULE Spec2Model ----
(***************************************************************************)
(* pyoptions: the Black-Scholes formula library (BlackScholes.py) and the  *)
(* binomial lattice pricer (Binomial.py).                                  *)
(*                                                                         *)
(* Numbers.  The program computes in IEEE double precision.  Here a real   *)
(* number x is the integer round(x * Scale): a fixed-point value with four *)
(* decimal places.  The three non-finite doubles are kept as values of     *)
(* their own (PInf, NInf, NaN) and every arithmetic operator propagates    *)
(* them as numpy does (x / 0 is +-inf, 0 / 0 and inf - inf are nan; no     *)
(* exception is raised, numpy only warns).  A finite result whose          *)
(* magnitude exceeds MaxFin overflows to +-inf, as a double does beyond    *)
(* 1.8e308.  Statements about computed prices are therefore stated up to a *)
(* tolerance of a few units of the last place.                             *)
(***************************************************************************)
EXTENDS Integers, Sequences, FiniteSets

VARIABLES
    Price, Strike, Volatility, Time, RiskFreeRate,  \* the arguments of the call
    Premium, OptionType,                            \* BlackScholes only
    NumSteps,                                       \* Lattice.Binomial only
    pc,                                             \* where the caller or Binomial is
    last,                                           \* what the last BlackScholes call did
    dt, u, d, q, disc,                              \* Binomial's per-step factors
    S, C,                                           \* Binomial's two grids
    i, j,                                           \* Binomial's loop counters
    tag,                                            \* history: what wrote each cell of C
    acc,                                            \* history: the cells the last step touched
    rd,                                             \* history: the cells of C the last step read
    result                                          \* Binomial's return value

vars == <<Price, Strike, Volatility, Time, RiskFreeRate, Premium, OptionType,
          NumSteps, pc, last, dt, u, d, q, disc, S, C, i, j, tag, acc, rd, result>>

Scale == 10000
PInf == 2000000000
NInf == 0 - PInf
NaN == 2100000000
MaxFin == 500000000

Abs(x) == IF x < 0 THEN 0 - x ELSE x

Sat(x) == IF x > MaxFin THEN PInf ELSE IF x < 0 - MaxFin THEN NInf ELSE x

IsFin(x) == x >= 0 - MaxFin /\ x <= MaxFin

IsInf(x) == x = PInf \/ x = NInf

\* IEEE comparisons: every comparison with nan is false.
FEq(a, b) == a # NaN /\ b # NaN /\ a = b

FLt(a, b) == a # NaN /\ b # NaN /\ a < b

FAbs(a) == IF a = NaN THEN NaN ELSE Abs(a)

FNeg(a) == IF a = NaN THEN NaN ELSE 0 - a

FAdd(a, b) ==
    IF a = NaN \/ b = NaN THEN NaN
    ELSE IF IsInf(a) THEN (IF IsInf(b) /\ a # b THEN NaN ELSE a)
    ELSE IF IsInf(b) THEN b
    ELSE Sat(a + b)

FSub(a, b) == FAdd(a, FNeg(b))

\* The product of two finite magnitudes, rounded to the nearest unit.
MulMag(x, y) ==
    LET xi == x \div Scale
        xf == x % Scale
        yi == y \div Scale
        yf == y % Scale
    IN  IF yi > 0 /\ xi > (MaxFin \div Scale) \div yi THEN PInf
        ELSE Sat(xi * yi * Scale + xi * yf + xf * yi
                 + (xf * yf + Scale \div 2) \div Scale)

\* The magnitude m with the sign of a * b (or of a / b).
Signed(m, a, b) == IF (a >= 0) = (b >= 0) THEN m ELSE 0 - m

FMul(a, b) ==
    IF a = NaN \/ b = NaN THEN NaN
    ELSE IF IsInf(a) \/ IsInf(b)
         THEN (IF a = 0 \/ b = 0 THEN NaN
               ELSE IF (a > 0) = (b > 0) THEN PInf ELSE NInf)
    ELSE Signed(MulMag(Abs(a), Abs(b)), a, b)

\* The next base-100 digit of r / y and what remains: r < y <= 20000000.
Digit(r, y) == (r * 100) \div y

Rest(r, y) == (r * 100) % y

\* x / y for magnitudes, y in 1..20000000, by long division, rounded to nearest.
LongDiv(x, y) ==
    IF x \div y > MaxFin \div Scale THEN PInf
    ELSE Sat((x \div y) * Scale + Digit(x % y, y) * 100 + Digit(Rest(x % y, y), y)
             + (IF 2 * Rest(Rest(x % y, y), y) >= y THEN 1 ELSE 0))

\* The quotient of two finite magnitudes, y > 0.
DivMag(x, y) ==
    IF y > 20000000 THEN LongDiv(x \div 100, y \div 100) ELSE LongDiv(x, y)

FDiv(a, b) ==
    IF a = NaN \/ b = NaN THEN NaN
    ELSE IF b = 0 THEN (IF a = 0 THEN NaN ELSE IF a > 0 THEN PInf ELSE NInf)
    ELSE IF IsInf(a)
         THEN (IF IsInf(b) THEN NaN
               ELSE IF (a > 0) = (b > 0) THEN PInf ELSE NInf)
    ELSE IF IsInf(b) THEN 0
    ELSE Signed(DivMag(Abs(a), Abs(b)), a, b)

\* Python's max(a, b): b unless a > b.
FMax(a, b) == IF FLt(b, a) THEN a ELSE b

RECURSIVE SqrtIter(_, _)
SqrtIter(n, x) ==
    LET y == (x + n \div x) \div 2
    IN  IF y >= x THEN x ELSE SqrtIter(n, y)

ISqrt(n) == IF n = 0 THEN 0 ELSE SqrtIter(n, n)

\* np.sqrt: nan (with a warning) below zero.
FSqrt(a) ==
    IF a = NaN \/ a < 0 THEN NaN
    ELSE IF a = PInf THEN PInf
    ELSE IF a <= 200000 THEN ISqrt(a * Scale)
    ELSE IF a <= 20000000 THEN ISqrt(a * 100) * 10
    ELSE ISqrt(a) * 100

RECURSIVE ExpSeries(_, _, _, _)
ExpSeries(f, k, term, sum) ==
    IF term = 0 \/ k > 12 THEN sum + term
    ELSE ExpSeries(f, k + 1, (FMul(term, f) + k \div 2) \div k, sum + term)

RECURSIVE EPow(_)
EPow(k) == IF k = 0 THEN Scale ELSE FMul(27183, EPow(k - 1))

\* e^x for finite x >= 0: e^k for the whole part, the series for the fraction.
ExpPos(x) ==
    IF x > 108000 THEN PInf
    ELSE FMul(EPow(x \div Scale), ExpSeries(x % Scale, 1, Scale, 0))

\* np.exp
FExp(x) ==
    IF x = NaN THEN NaN
    ELSE IF x = PInf THEN PInf
    ELSE IF x = NInf THEN 0
    ELSE IF x >= 0 THEN ExpPos(x)
    ELSE FDiv(Scale, ExpPos(0 - x))

RECURSIVE AtanhSeries(_, _, _, _)
AtanhSeries(z2, k, pow, sum) ==
    IF pow = 0 \/ k > 15 THEN sum
    ELSE AtanhSeries(z2, k + 2, FMul(pow, z2), sum + (pow + k \div 2) \div k)

\* atanh z = z + z^3 / 3 + z^5 / 5 + ...
Atanh(z) == AtanhSeries(FMul(z, z), 1, z, 0)

\* ln m for m in [1, 2): 2 atanh((m - 1) / (m + 1)).
LnMantissa(m) == 2 * Atanh(FDiv(m - Scale, m + Scale))

RECURSIVE LnReduce(_, _)
LnReduce(x, base) ==
    IF x >= 2 * Scale THEN LnReduce(x \div 2, base + 6931)
    ELSE IF x < Scale THEN LnReduce(x * 2, base - 6931)
    ELSE base + LnMantissa(x)

\* np.log: -inf at zero, nan below it.
FLn(x) ==
    IF x = NaN \/ x < 0 THEN NaN
    ELSE IF x = 0 THEN NInf
    ELSE IF x = PInf THEN PInf
    ELSE LnReduce(x, 0)

(***************************************************************************)
(* scipy.stats.norm                                                        *)
(***************************************************************************)

\* stats.norm.pdf: e^(-x^2/2) / sqrt(2 pi)
Pdf(x) == FMul(FExp(FNeg(FDiv(FMul(x, x), 2 * Scale))), 3989)

\* The upper tail 1 - Phi(x) for x > 0 (Abramowitz and Stegun 26.2.17).
TailPoly(t) ==
    FMul(t, 3194 + FMul(t, FMul(t, 17815 + FMul(t, FMul(t, 13303) - 18213)) - 3566))

UpperTail(x) ==
    IF x >= 6 * Scale THEN 0
    ELSE FMul(Pdf(x), TailPoly(FDiv(Scale, Scale + FMul(2316, x))))

\* stats.norm.cdf: 1/2 at zero, and Phi(-x) = 1 - Phi(x).
Cdf(x) ==
    IF x = NaN THEN NaN
    ELSE IF x = 0 THEN Scale \div 2
    ELSE IF x > 0 THEN Scale - UpperTail(x)
    ELSE UpperTail(0 - x)

(***************************************************************************)
(* str.lower.  A string is the sequence of its characters.                 *)
(***************************************************************************)

UpperCase == <<"A", "B", "C", "D", "E", "F", "G", "H", "I", "J", "K", "L", "M",
               "N", "O", "P", "Q", "R", "S", "T", "U", "V", "W", "X", "Y", "Z">>

LowerCase == <<"a", "b", "c", "d", "e", "f", "g", "h", "i", "j", "k", "l", "m",
               "n", "o", "p", "q", "r", "s", "t", "u", "v", "w", "x", "y", "z">>

LowerChar(c) ==
    IF \E k \in 1..26 : UpperCase[k] = c
    THEN LowerCase[CHOOSE k \in 1..26 : UpperCase[k] = c]
    ELSE c

lower(s) == [k \in 1..Len(s) |-> LowerChar(s[k])]

call == <<"c", "a", "l", "l">>

put == <<"p", "u", "t">>

(***************************************************************************)
(* BlackScholes.  Every function returns a record: out is "ok" (a number   *)
(* was returned, val) or the exception raised, and ev names what was       *)
(* evaluated on the way.                                                   *)
(***************************************************************************)

Ret(v, e) == [out |-> "ok", val |-> v, ev |-> e]

Raise(x) == [out |-> x, val |-> 0, ev |-> {}]

\* Time / 365
Years(T) == FDiv(T, 365 * Scale)

_d1(P, K, V, T, R) ==
    FDiv(FAdd(FLn(FDiv(P, K)),
              FDiv(FMul(FAdd(R, FDiv(FMul(V, V), 2 * Scale)), T), 365 * Scale)),
         FMul(V, FSqrt(Years(T))))

_d2(P, K, V, T, R) == FSub(_d1(P, K, V, T, R), FMul(V, FSqrt(Years(T))))

\* np.exp(-RiskFreeRate * Time)
Discount(R, T) == FExp(FMul(FNeg(R), T))

CallOptionPrice(P, K, V, T, R) ==
    LET d1 == _d1(P, K, V, T, R)
        d2 == _d2(P, K, V, T, R)
    IN  Ret(FSub(FMul(P, Cdf(d1)), FMul(FMul(K, Discount(R, T)), Cdf(d2))),
            {"d1", "d2"})

\* Mutant: the expired-option test is missing.
PutNoShortCircuit(P, K, V, T, R) ==
    Ret(FSub(FMul(FMul(K, Discount(R, T)), Cdf(FNeg(_d2(P, K, V, T, R)))),
             FMul(P, Cdf(FNeg(_d1(P, K, V, T, R))))),
        {"d1", "d2"})

\* Mutant: the put discounts over Time / 365 years while the call discounts over Time.
PutYearDiscount(P, K, V, T, R) ==
    IF T = 0 THEN Ret(0, {})
    ELSE Ret(FSub(FMul(FMul(K, Discount(R, Years(T))), Cdf(FNeg(_d2(P, K, V, T, R)))),
                  FMul(P, Cdf(FNeg(_d1(P, K, V, T, R))))),
             {"d1", "d2"})

PutOptionPrice(P, K, V, T, R) ==
    IF T = 0 THEN Ret(0, {})
    ELSE LET d1 == _d1(P, K, V, T, R)
             d2 == _d2(P, K, V, T, R)
         IN  Ret(FSub(FMul(FMul(K, Discount(R, T)), Cdf(FNeg(d2))),
                      FMul(P, Cdf(FNeg(d1)))),
                 {"d1", "d2"})

\* func(Price, Strike, x, Time, RiskFreeRate) - Premium, func the price function chosen.
Objective(isCall, P, K, T, Prem, R, x) ==
    FSub((IF isCall THEN CallOptionPrice(P, K, x, T, R)
                    ELSE PutOptionPrice(P, K, x, T, R)).val, Prem)

\* The volatilities among which a root is looked for: VolStep, 2 VolStep, ...
VolStep == 500

VolCount == 8

VolGrid == {VolStep * k : k \in 1..VolCount}

\* A root of the objective lies in [x, x + VolStep): it is zero at x or changes sign.
\* y0 is zero, or y0 and y1 have opposite signs.
RootBetween(y0, y1) ==
    \/ FEq(y0, 0)
    \/ FLt(y0, 0) /\ FLt(0, y1)
    \/ FLt(0, y0) /\ FLt(y1, 0)

Brackets(isCall, P, K, T, Prem, R, x) ==
    RootBetween(Objective(isCall, P, K, T, Prem, R, x),
                Objective(isCall, P, K, T, Prem, R, x + VolStep))

\* optimize.newton(f, 0.1) is scipy's, not this repository's: it is modelled by its
\* contract.  It returns a root of f (here: the grid point at or just below one) or
\* raises RuntimeError when the iteration does not converge; which of these happens
\* is left open, so the value is a set of outcomes.
Newton(isCall, P, K, T, Prem, R) ==
    {Raise("RuntimeError")} \cup
    {Ret(x, {"newton"}) : x \in {y \in VolGrid : Brackets(isCall, P, K, T, Prem, R, y)}}

\* The set of outcomes of ImpliedVolatility.
ImpliedVolatility(P, K, T, Prem, R, OT) ==
    IF OT = call THEN Newton(TRUE, P, K, T, Prem, R)
    ELSE IF OT = put THEN Newton(FALSE, P, K, T, Prem, R)
    ELSE {Raise("ValueError")}

Delta(P, K, V, T, R, OT) ==
    IF lower(OT) = call THEN Ret(Cdf(_d1(P, K, V, T, R)), {"d1"})
    ELSE IF lower(OT) = put THEN Ret(FSub(Cdf(_d1(P, K, V, T, R)), Scale), {"d1"})
    ELSE Raise("ValueError")

Gamma(P, K, V, T, R, OT) ==
    IF lower(OT) = call
    THEN Ret(FDiv(Pdf(_d1(P, K, V, T, R)), FMul(FMul(P, V), FSqrt(T))), {"d1"})
    ELSE IF lower(OT) = put
    THEN Ret(FDiv(Pdf(_d1(P, K, V, T, R)), FMul(FMul(P, V), FSqrt(T))), {"d1"})
    ELSE Raise("ValueError")

\* -Price * pdf(d1) * Volatility / (2 * sqrt(Time))
ThetaDecay(P, V, T, d1) ==
    FDiv(FMul(FMul(FNeg(P), Pdf(d1)), V), FMul(2 * Scale, FSqrt(T)))

Theta(P, K, V, T, R, OT) ==
    IF lower(OT) = call
    THEN Ret(FSub(ThetaDecay(P, V, T, _d1(P, K, V, T, R)),
                  FMul(FMul(FMul(R, K), Discount(R, T)), Cdf(_d2(P, K, V, T, R)))),
             {"d1", "d2"})
    ELSE IF lower(OT) = put
    THEN Ret(FAdd(ThetaDecay(P, V, T, _d1(P, K, V, T, R)),
                  FMul(FMul(FMul(R, K), Discount(R, T)),
                       Cdf(FNeg(_d2(P, K, V, T, R))))),
             {"d1", "d2"})
    ELSE Raise("ValueError")

Vega(P, K, V, T, R, OT) ==
    IF lower(OT) = call
    THEN Ret(FMul(FMul(P, Pdf(_d1(P, K, V, T, R))), FSqrt(T)), {"d1"})
    ELSE IF lower(OT) = put
    THEN Ret(FMul(FMul(P, Pdf(_d1(P, K, V, T, R))), FSqrt(T)), {"d1"})
    ELSE Raise("ValueError")

Rho(P, K, V, T, R, OT) ==
    IF lower(OT) = call
    THEN Ret(FMul(FMul(FMul(K, T), Discount(R, T)), Cdf(_d1(P, K, V, T, R))), {"d1"})
    ELSE IF lower(OT) = put
    THEN Ret(FMul(FMul(FMul(FNeg(K), T), Discount(R, T)),
                  Cdf(FNeg(_d1(P, K, V, T, R)))), {"d1"})
    ELSE Raise("ValueError")

\* delta * Price / value
Elasticity(value, delta, P) ==
    Ret(FDiv(FMul(delta.val, P), value.val),
        value.ev \cup delta.ev \cup {"price", "delta"})

Lambda(P, K, V, T, R, OT) ==
    IF lower(OT) = call
    THEN Elasticity(CallOptionPrice(P, K, V, T, R), Delta(P, K, V, T, R, OT), P)
    ELSE IF lower(OT) = put
    THEN Elasticity(PutOptionPrice(P, K, V, T, R), Delta(P, K, V, T, R, OT), P)
    ELSE Raise("ValueError")

\* exp(-r T / 365) * sqrt(T / 365) * (d2 / Volatility) * exp(-(d1 ** 2) / 2) / (2 * pi)
VannaFormula(V, T, R, d1, d2) ==
    FDiv(FMul(FMul(FMul(FExp(FDiv(FMul(FNeg(R), T), 365 * Scale)),
                        FSqrt(Years(T))),
                   FDiv(d2, V)),
              FExp(FDiv(FNeg(FMul(d1, d1)), 2 * Scale))),
         FMul(2 * Scale, 31416))

VannaCall(P, K, V, T, R) ==
    VannaFormula(V, T, R, _d1(P, K, V, T, R), _d2(P, K, V, T, R))

\* Mutant: every type that is not a call is priced as a put, nothing is raised.
VannaNoRaise(P, K, V, T, R, OT) ==
    IF lower(OT) = call THEN Ret(VannaCall(P, K, V, T, R), {"d1", "d2"})
    ELSE Ret(FMul(VannaCall(P, K, V, T, R), 0 - Scale), {"d1", "d2"})

\* Mutant: the put branch lacks the factor -1.
VannaNoNegate(P, K, V, T, R, OT) ==
    IF lower(OT) = call THEN Ret(VannaCall(P, K, V, T, R), {"d1", "d2"})
    ELSE IF lower(OT) = put THEN Ret(VannaCall(P, K, V, T, R), {"d1", "d2"})
    ELSE Raise("ValueError")

Vanna(P, K, V, T, R, OT) ==
    IF lower(OT) = call THEN Ret(VannaCall(P, K, V, T, R), {"d1", "d2"})
    ELSE IF lower(OT) = put
    THEN Ret(FMul(VannaCall(P, K, V, T, R), 0 - Scale), {"d1", "d2"})
    ELSE Raise("ValueError")

(***************************************************************************)
(* A caller of BlackScholes: it calls one function with the arguments      *)
(* chosen at the start, gets a number or an exception, and may call again. *)
(***************************************************************************)

PriceSet == {900000, 1000000, 1100000}

StrikeSet == {1000000}

VolatilitySet == {0, 2000, 5000}

TimeSet == {0, 300000, 3650000}

RateSet == {0 - 100, 0, 200}

PremiumSet == {25000, 250000}

OptionTypeSet ==
    { call, put,
      <<"C", "a", "l", "l">>, <<"C", "A", "L", "L">>, <<"c", "A", "l", "L">>,
      <<"P", "u", "t">>, <<"P", "U", "T">>,
      <<"s", "t", "r", "a", "d", "d", "l", "e">>, <<"c", "a", "l", "l", "s">>, << >> }

NoCall == [op |-> "none", out |-> "none", val |-> 0, ev |-> {}]

NoGrid == << >>

NoRead == [row |-> 0 - 1, col |-> 0 - 1, reads |-> << >>, val |-> 0]

latticeVars == <<NumSteps, dt, u, d, q, disc, S, C, i, j, tag, acc, rd, result>>

args == <<Price, Strike, Volatility, Time, RiskFreeRate, Premium, OptionType>>

LatticeUnused ==
    /\ NumSteps = 0
    /\ dt = 0 /\ u = 0 /\ d = 0 /\ q = 0 /\ disc = 0
    /\ S = NoGrid /\ C = NoGrid /\ tag = NoGrid
    /\ i = 0 /\ j = 0
    /\ acc = {} /\ rd = NoRead /\ result = 0

InitBS ==
    /\ Price \in PriceSet
    /\ Strike \in StrikeSet
    /\ Volatility \in VolatilitySet
    /\ Time \in TimeSet
    /\ RiskFreeRate \in RateSet
    /\ Premium \in PremiumSet
    /\ OptionType \in OptionTypeSet
    /\ pc = "idle"
    /\ last = NoCall
    /\ LatticeUnused

Called(name, r) == [op |-> name, out |-> r.out, val |-> r.val, ev |-> r.ev]

Invoke(name, r) ==
    /\ pc = "idle"
    /\ last' = Called(name, r)
    /\ pc' = "returned"
    /\ UNCHANGED <<args, latticeVars>>

DoCallOptionPrice ==
    Invoke("CallOptionPrice",
           CallOptionPrice(Price, Strike, Volatility, Time, RiskFreeRate))

DoPutOptionPrice ==
    Invoke("PutOptionPrice",
           PutOptionPrice(Price, Strike, Volatility, Time, RiskFreeRate))

DoImpliedVolatility ==
    \E r \in ImpliedVolatility(Price, Strike, Time, Premium, RiskFreeRate, OptionType) :
        Invoke("ImpliedVolatility", r)

DoDelta ==
    Invoke("Delta", Delta(Price, Strike, Volatility, Time, RiskFreeRate, OptionType))

DoGamma ==
    Invoke("Gamma", Gamma(Price, Strike, Volatility, Time, RiskFreeRate, OptionType))

DoTheta ==
    Invoke("Theta", Theta(Price, Strike, Volatility, Time, RiskFreeRate, OptionType))

DoVega ==
    Invoke("Vega", Vega(Price, Strike, Volatility, Time, RiskFreeRate, OptionType))

DoRho ==
    Invoke("Rho", Rho(Price, Strike, Volatility, Time, RiskFreeRate, OptionType))

DoLambda ==
    Invoke("Lambda", Lambda(Price, Strike, Volatility, Time, RiskFreeRate, OptionType))

DoVanna ==
    Invoke("Vanna", Vanna(Price, Strike, Volatility, Time, RiskFreeRate, OptionType))

\* The caller takes the result (or handles the exception) and is free to call again.
Consume ==
    /\ pc = "returned"
    /\ pc' = "idle"
    /\ last' = NoCall
    /\ UNCHANGED <<args, latticeVars>>

NextBS ==
    \/ DoCallOptionPrice
    \/ DoPutOptionPrice
    \/ DoImpliedVolatility
    \/ DoDelta
    \/ DoGamma
    \/ DoTheta
    \/ DoVega
    \/ DoRho
    \/ DoLambda
    \/ DoVanna
    \/ Consume

SpecBS == InitBS /\ [][NextBS]_vars

(***************************************************************************)
(* Lattice.Binomial, one step per executed statement: the row operations   *)
(* on S are one step each, the two nested loops one step per cell.         *)
(***************************************************************************)

MaxSteps == 3

LatticePriceSet == {1000000}

LatticeStrikeSet == {500000, 1000000, 1500000}

LatticeRateSet == {0, 500}

LatticeTimeSet == {10000}

LatticeVolatilitySet == {2000, 4000}

bsVars == <<Premium, OptionType, last>>

inputs == <<Price, Strike, RiskFreeRate, Time, Volatility, NumSteps>>

InitLattice ==
    /\ Price \in LatticePriceSet
    /\ Strike \in LatticeStrikeSet
    /\ RiskFreeRate \in LatticeRateSet
    /\ Time \in LatticeTimeSet
    /\ Volatility \in LatticeVolatilitySet
    /\ NumSteps \in 1..MaxSteps
    /\ Premium = 0 /\ OptionType = call /\ last = NoCall
    /\ pc = "start"
    /\ dt = 0 /\ u = 0 /\ d = 0 /\ q = 0 /\ disc = 0
    /\ S = NoGrid /\ C = NoGrid /\ tag = NoGrid
    /\ i = 0 /\ j = 0
    /\ acc = {} /\ rd = NoRead /\ result = 0

\* np.zeros((NumSteps + 1, NumSteps + 1))
Zeros(n) == [r \in 0..n |-> [c \in 0..n |-> 0]]

\* An index numpy accepts on an axis of length n + 1, and the place it denotes.
ValidIndex(n, k) == k >= 0 - (n + 1) /\ k <= n

Place(n, k) == IF k < 0 THEN k + n + 1 ELSE k

Touched(n, cells) == \A a \in cells : ValidIndex(n, a[2]) /\ ValidIndex(n, a[3])

At(g, n, r, c) == g[Place(n, r)][Place(n, c)]

\* The statement touches `cells`: it runs if numpy accepts every index, and raises
\* IndexError, leaving the grids as they are, if not.
Access(cells, effect) ==
    /\ acc' = cells
    /\ IF Touched(NumSteps, cells)
       THEN effect
       ELSE /\ pc' = "IndexError"
            /\ UNCHANGED <<S, C, tag, i, j, rd, result>>

Row(g, r, n) == {<<g, r, c>> : c \in 0..n}

\* Lines 52-59: the factors, and S with the spot price in row 0.
Setup ==
    /\ pc = "start"
    /\ dt' = FDiv(Time, NumSteps * Scale)
    /\ u' = FExp(FMul(Volatility, FSqrt(dt')))
    /\ d' = FDiv(Scale, u')
    /\ q' = FDiv(FSub(FExp(FMul(RiskFreeRate, dt')), d'), FSub(u', d'))
    /\ disc' = FExp(FMul(FNeg(RiskFreeRate), dt'))
    /\ S' = [Zeros(NumSteps) EXCEPT ![0] = [c \in 0..NumSteps |-> Price]]
    /\ acc' = Row("S", 0, NumSteps)
    /\ i' = 1
    /\ pc' = "build"
    /\ UNCHANGED <<inputs, bsVars, C, tag, j, rd, result>>

\* Lines 60-61: S[i, :] = S[i - 1, :] * u
BuildRow ==
    /\ pc = "build"
    /\ i <= NumSteps
    /\ Access(Row("S", i - 1, NumSteps) \cup Row("S", i, NumSteps),
              /\ S' = [S EXCEPT ![Place(NumSteps, i)] =
                          [c \in 0..NumSteps |-> FMul(At(S, NumSteps, i - 1, c), u)]]
              /\ i' = i + 1
              /\ UNCHANGED <<pc, C, tag, j, rd, result>>)
    /\ UNCHANGED <<inputs, bsVars, dt, u, d, q, disc>>

\* Line 63: C = np.zeros(...), and the payoff loops start.
BuildDone ==
    /\ pc = "build"
    /\ i > NumSteps
    /\ C' = Zeros(NumSteps)
    /\ tag' = [r \in 0..NumSteps |-> [c \in 0..NumSteps |-> "zero"]]
    /\ acc' = {}
    /\ i' = 0
    /\ j' = 0
    /\ pc' = "payoff"
    /\ UNCHANGED <<inputs, bsVars, dt, u, d, q, disc, S, rd, result>>

\* range(NumSteps - i + 1): the last column of row r the payoff loop writes.
PayoffLastCol(n, r) == n - r

\* max(S[i, j] - Strike, 0)
Payoff(s, K) == FMax(FSub(s, K), 0)

\* Lines 64-66: C[i, j] = max(S[i, j] - Strike, 0)
PayoffCell ==
    /\ pc = "payoff"
    /\ i <= NumSteps
    /\ j <= PayoffLastCol(NumSteps, i)
    /\ Access({<<"S", i, j>>, <<"C", i, j>>},
              /\ C' = [C EXCEPT ![Place(NumSteps, i)][Place(NumSteps, j)] =
                          Payoff(At(S, NumSteps, i, j), Strike)]
              /\ tag' = [tag EXCEPT ![Place(NumSteps, i)][Place(NumSteps, j)] = "payoff"]
              /\ j' = j + 1
              /\ UNCHANGED <<pc, S, i, rd, result>>)
    /\ UNCHANGED <<inputs, bsVars, dt, u, d, q, disc>>

PayoffNextRow ==
    /\ pc = "payoff"
    /\ i <= NumSteps
    /\ j > PayoffLastCol(NumSteps, i)
    /\ i' = i + 1
    /\ j' = 0
    /\ acc' = {}
    /\ UNCHANGED <<inputs, bsVars, pc, dt, u, d, q, disc, S, C, tag, rd, result>>

\* Line 67: range(NumSteps - 1, -1, -1) starts.
PayoffDone ==
    /\ pc = "payoff"
    /\ i > NumSteps
    /\ i' = NumSteps - 1
    /\ j' = 0
    /\ acc' = {}
    /\ pc' = "induct"
    /\ UNCHANGED <<inputs, bsVars, dt, u, d, q, disc, S, C, tag, rd, result>>

\* Mutant: range(i), the diagonal node is left as it was.
InductShort(r) == r - 1

\* Mutant: range(i + 2), one node too many.
InductLong(r) == r + 1

\* range(i + 1): the last column of row r the induction writes.
InductLastCol(r) == r

\* disc * (q * C[i + 1, j] + (1 - q) * C[i + 1, j + 1])
Continuation(ds, pr, up, down) ==
    FMul(ds, FAdd(FMul(pr, up), FMul(FSub(Scale, pr), down)))

ReadOf(r, c) ==
    [row |-> r, col |-> c, tag |-> At(tag, NumSteps, r, c), val |-> At(C, NumSteps, r, c)]

\* Lines 67-69: C[i, j] = disc * (q * C[i + 1, j] + (1 - q) * C[i + 1, j + 1])
InductCell ==
    /\ pc = "induct"
    /\ i >= 0
    /\ j <= InductLastCol(i)
    /\ Access({<<"C", i + 1, j>>, <<"C", i + 1, j + 1>>, <<"C", i, j>>},
              /\ C' = [C EXCEPT ![Place(NumSteps, i)][Place(NumSteps, j)] =
                          Continuation(disc, q, At(C, NumSteps, i + 1, j),
                                       At(C, NumSteps, i + 1, j + 1))]
              /\ tag' = [tag EXCEPT ![Place(NumSteps, i)][Place(NumSteps, j)] = "cont"]
              /\ rd' = [row |-> i, col |-> j,
                        reads |-> <<ReadOf(i + 1, j), ReadOf(i + 1, j + 1)>>,
                        val |-> At(C', NumSteps, i, j)]
              /\ j' = j + 1
              /\ UNCHANGED <<pc, S, i, result>>)
    /\ UNCHANGED <<inputs, bsVars, dt, u, d, q, disc>>

InductNextRow ==
    /\ pc = "induct"
    /\ i >= 0
    /\ j > InductLastCol(i)
    /\ i' = i - 1
    /\ j' = 0
    /\ acc' = {}
    /\ UNCHANGED <<inputs, bsVars, pc, dt, u, d, q, disc, S, C, tag, rd, result>>

\* Line 70: return C[0, 0]
Return ==
    /\ pc = "induct"
    /\ i < 0
    /\ Access({<<"C", 0, 0>>},
              /\ result' = At(C, NumSteps, 0, 0)
              /\ pc' = "done"
              /\ UNCHANGED <<S, C, tag, i, j, rd>>)
    /\ UNCHANGED <<inputs, bsVars, dt, u, d, q, disc>>

NextLattice ==
    \/ Setup
    \/ BuildRow
    \/ BuildDone
    \/ PayoffCell
    \/ PayoffNextRow
    \/ PayoffDone
    \/ InductCell
    \/ InductNextRow
    \/ Return

SpecLattice == InitLattice /\ [][NextLattice]_vars

(***************************************************************************)
(* The claims.                                                             *)
(***************************************************************************)

TypeOps == {"ImpliedVolatility", "Delta", "Gamma", "Theta", "Vega", "Rho", "Lambda", "Vanna"}

UpperOf(c) ==
    IF \E k \in 1..26 : LowerCase[k] = c
    THEN UpperCase[CHOOSE k \in 1..26 : LowerCase[k] = c]
    ELSE c

\* s spells the lowercase word w, each letter in either case.
CaseVariant(s, w) ==
    /\ Len(s) = Len(w)
    /\ \A k \in 1..Len(w) : s[k] = w[k] \/ s[k] = UpperOf(w[k])

IsCallOrPut(s) == CaseVariant(s, call) \/ CaseVariant(s, put)

Spelled(s) == IF CaseVariant(s, call) THEN call ELSE put

\* What the operation `name` can do with the caller's arguments and option type OT.
Outcomes(name, OT) ==
    CASE name = "ImpliedVolatility" ->
            ImpliedVolatility(Price, Strike, Time, Premium, RiskFreeRate, OT)
      [] name = "Delta" -> {Delta(Price, Strike, Volatility, Time, RiskFreeRate, OT)}
      [] name = "Gamma" -> {Gamma(Price, Strike, Volatility, Time, RiskFreeRate, OT)}
      [] name = "Theta" -> {Theta(Price, Strike, Volatility, Time, RiskFreeRate, OT)}
      [] name = "Vega" -> {Vega(Price, Strike, Volatility, Time, RiskFreeRate, OT)}
      [] name = "Rho" -> {Rho(Price, Strike, Volatility, Time, RiskFreeRate, OT)}
      [] name = "Lambda" -> {Lambda(Price, Strike, Volatility, Time, RiskFreeRate, OT)}
      [] name = "Vanna" -> {Vanna(Price, Strike, Volatility, Time, RiskFreeRate, OT)}

Returned(name) == pc = "returned" /\ last.op = name

\* C1 (as claimed): every type-discriminated operation accepts any case variant of
\* "call" or "put": it does not raise ValueError and does what it does for the
\* lowercase spelling with the same numbers.
ClaimC1_CaseInsensitive ==
    (pc = "returned" /\ last.op \in TypeOps /\ IsCallOrPut(OptionType))
        => /\ last.out # "ValueError"
           /\ last \in {Called(last.op, r) : r \in Outcomes(last.op, Spelled(OptionType))}

\* C2: a type-discriminated operation given an option type that is neither "call"
\* nor "put" in any letter case raises ValueError, returns no number and has
\* evaluated nothing (no d1, d2, price or root finder), whatever the numbers are.
TheoremC2_UnsupportedTypeRaises ==
    (pc = "returned" /\ last.op \in TypeOps /\ ~IsCallOrPut(OptionType))
        => last.out = "ValueError" /\ last.ev = {}

\* C2's case: Vanna("straddle") with Time = 0 and Volatility = 0 has raised.
WitnessC2 ==
    /\ Returned("Vanna")
    /\ OptionType = <<"s", "t", "r", "a", "d", "d", "l", "e">>
    /\ Time = 0 /\ Volatility = 0
    /\ last.out = "ValueError"

\* C3: PutOptionPrice with Time = 0 returns exactly 0 whatever the other arguments
\* are, and has not evaluated d1 or d2 (where the divisions are).
TheoremC3_ExpiredPutIsZero ==
    (Returned("PutOptionPrice") /\ Time = 0)
        => last.out = "ok" /\ last.val = 0 /\ last.ev = {}

\* C3's case: an expired put at the money with zero volatility, where d1 is 0 / 0.
WitnessC3 ==
    /\ Returned("PutOptionPrice")
    /\ Time = 0 /\ Volatility = 0 /\ Price = Strike
    /\ FDiv(0, FMul(Volatility, FSqrt(Years(Time)))) = NaN
    /\ last.val = 0

ParityTol == 1

\* S - K e^(-r T), with the discount factor the prices use.
Forward == FSub(Price, FMul(Strike, Discount(RiskFreeRate, Time)))

Near(a, b, tol) == IsFin(a) /\ IsFin(b) /\ Abs(a - b) <= tol

\* C4: put-call parity.  For volatility > 0 and T > 0 the call price minus the put
\* price for the same arguments is S - K e^(-r T), up to rounding.
TheoremC4_PutCallParity ==
    /\ (Returned("CallOptionPrice") /\ Volatility > 0 /\ Time > 0)
          => Near(FSub(last.val,
                       PutOptionPrice(Price, Strike, Volatility, Time, RiskFreeRate).val),
                  Forward, ParityTol)
    /\ (Returned("PutOptionPrice") /\ Volatility > 0 /\ Time > 0)
          => Near(FSub(CallOptionPrice(Price, Strike, Volatility, Time, RiskFreeRate).val,
                       last.val),
                  Forward, ParityTol)

\* C4's case: a put priced by the formula, in the money against a positive rate.
WitnessC4 ==
    /\ Returned("PutOptionPrice")
    /\ Volatility > 0 /\ Time > 0 /\ RiskFreeRate > 0 /\ Price > Strike
    /\ last.val # 0

\* C7 (as claimed): CallOptionPrice(100, 100, 0.2, 365, 0.02) is about 8.92 and lies
\* strictly between max(S - K e^(-r T), 0) and S.
ClaimC7_LiteralCallPrice ==
    (/\ Returned("CallOptionPrice")
     /\ Price = 100 * Scale /\ Strike = 100 * Scale
     /\ Volatility = 2000 /\ Time = 365 * Scale /\ RiskFreeRate = 200)
        => /\ Near(last.val, 89200, 500)
           /\ FLt(FMax(Forward, 0), last.val)
           /\ FLt(last.val, Price)

\* The standard normal density written out: e^(-x^2/2) / sqrt(2 pi).
Density(x) == FDiv(FExp(FDiv(FNeg(FMul(x, x)), 2 * Scale)), FSqrt(2 * 31416))

\* e^(-r T / 365) sqrt(T / 365) (d2 / sigma) w / (2 pi) for the caller's arguments.
VannaWith(w) ==
    FDiv(FMul(FMul(FMul(FExp(FDiv(FMul(FNeg(RiskFreeRate), Time), 365 * Scale)),
                        FSqrt(FDiv(Time, 365 * Scale))),
                   FDiv(_d2(Price, Strike, Volatility, Time, RiskFreeRate), Volatility)),
              w),
         2 * 31416)

SignOf(OT) == IF lower(OT) = call THEN Scale ELSE 0 - Scale

VannaTol == 2

\* C8 (as claimed): Vanna is +-e^(-r T/365) sqrt(T/365) (d2/sigma) phi(d1) / (2 pi)
\* with phi the standard normal density, + for a call and - for a put.
ClaimC8_VannaDensity ==
    (Returned("Vanna") /\ last.out = "ok" /\ Volatility > 0 /\ Time > 0)
        => Near(last.val,
                FMul(SignOf(OptionType),
                     VannaWith(Density(_d1(Price, Strike, Volatility, Time, RiskFreeRate)))),
                VannaTol)

\* C8 (amended): Vanna is +-e^(-r T/365) sqrt(T/365) (d2/sigma) e^(-d1^2/2) / (2 pi),
\* the exponential alone and not the density, + for a call and, exactly negated,
\* - for a put.
TheoremC8_VannaExponential ==
    (Returned("Vanna") /\ last.out = "ok" /\ Volatility > 0 /\ Time > 0)
        => LET d1 == _d1(Price, Strike, Volatility, Time, RiskFreeRate)
               w == VannaWith(FExp(FDiv(FNeg(FMul(d1, d1)), 2 * Scale)))
           IN  /\ lower(OptionType) = call => last.val = w
               /\ lower(OptionType) = put => last.val = FNeg(w)

\* C8's case: Vanna of a put, written "PUT", with d2 away from zero.
WitnessC8 ==
    /\ Returned("Vanna")
    /\ OptionType = <<"P", "U", "T">>
    /\ Volatility > 0 /\ Time > 0
    /\ last.out = "ok" /\ last.val < 0

Terminal == NumSteps

\* C5 (as claimed): when backward induction starts, the terminal row of the option
\* value grid holds the payoff at every node: C[n, c] = max(S[n, c] - K, 0), c in 0..n.
ClaimC5_TerminalPayoff ==
    (pc = "induct" /\ i = NumSteps - 1 /\ j = 0 /\ rd = NoRead)
        => \A c \in 0..NumSteps : C[Terminal][c] = Payoff(S[Terminal][c], Strike)

RECURSIVE Power(_, _)
Power(x, k) == IF k = 0 THEN Scale ELSE FMul(x, Power(x, k - 1))

RECURSIVE Choose(_, _)
Choose(n, k) == IF k = 0 \/ k = n THEN 1 ELSE Choose(n - 1, k - 1) + Choose(n - 1, k)

\* C(n, k) q^(n-k) (1-q)^k max(S u^(n-k) d^k - K, 0)
CRRTerm(n, k) ==
    FMul(FMul(Choose(n, k) * Scale, FMul(Power(q, n - k), Power(FSub(Scale, q), k))),
         FMax(FSub(FMul(Price, FMul(Power(u, n - k), Power(d, k))), Strike), 0))

RECURSIVE CRRSum(_, _)
CRRSum(n, k) == IF k > n THEN 0 ELSE FAdd(CRRTerm(n, k), CRRSum(n, k + 1))

\* The Cox-Ross-Rubinstein European call value for the factors Binomial computed.
CRRValue == FMul(Power(disc, NumSteps), CRRSum(NumSteps, 0))

LatticeTol == 1000

\* C6 (as claimed): what Binomial returns is the Cox-Ross-Rubinstein value, the
\* discounted risk-neutral expectation of the payoff over the n + 1 terminal prices.
ClaimC6_CRRValue == pc = "done" => Near(result, CRRValue, LatticeTol)

InductionRan == pc \in {"induct", "done"} /\ rd # NoRead

\* C9: every induction step writes disc (q C[i+1, j] + (1-q) C[i+1, j+1]) into
\* C[i, j], reading exactly those two cells; a value read from a row below the
\* terminal one is a continuation value written by the induction; rows are done from
\* n - 1 down to 0, nodes 0..i of row i each; and the value returned is the
\* continuation value at C[0, 0].
TheoremC9_ContinuationOnly ==
    /\ InductionRan =>
          /\ rd.reads[1].row = rd.row + 1 /\ rd.reads[1].col = rd.col
          /\ rd.reads[2].row = rd.row + 1 /\ rd.reads[2].col = rd.col + 1
          /\ rd.val = FMul(disc, FAdd(FMul(q, rd.reads[1].val),
                                      FMul(FSub(Scale, q), rd.reads[2].val)))
          /\ \A k \in 1..2 : rd.reads[k].row < NumSteps => rd.reads[k].tag = "cont"
          /\ \A r \in 0..(NumSteps - 1) : \A c \in 0..r :
                (r > rd.row \/ (r = rd.row /\ c <= rd.col)) <=> tag[r][c] = "cont"
    /\ pc = "done" =>
          /\ rd.row = 0 /\ rd.col = 0
          /\ result = rd.val
          /\ tag[0][0] = "cont"

\* C9's case: a tree of two or more steps has been valued; an interior node was in
\* the money when the payoff loop ran over it, and row 0 still holds a payoff that
\* nothing read.
WitnessC9 ==
    /\ pc = "done"
    /\ NumSteps >= 2
    /\ Payoff(S[1][0], Strike) > 0
    /\ tag[0][1] = "payoff"
    /\ result > 0

\* C10: every cell of S or C a statement reads or writes has row and column in 0..n,
\* and no statement raises IndexError.
TheoremC10_IndicesInGrid ==
    /\ pc # "IndexError"
    /\ \A a \in acc : a[2] \in 0..NumSteps /\ a[3] \in 0..NumSteps

\* C10's case: the induction has just read C[i + 1, j + 1] at j = i, in the last
\* column of the terminal row.
WitnessC10 ==
    /\ pc = "induct"
    /\ NumSteps >= 2
    /\ rd.row = NumSteps - 1 /\ rd.col = rd.row
    /\ <<"C", NumSteps, NumSteps>> \in acc

====
